---- MODULE Spec2Model ----
(***************************************************************************)
(* A model of dcc-decode: the base45 decoder of src/b45.rs, the keyed-map  *)
(* payload decoder of src/dcc/mod.rs and the decode-then-verify run of     *)
(* main() in src/main.rs with the algorithm check of src/cert.rs.          *)
(*                                                                         *)
(* Bytes and characters are their numeric (ASCII) values.  Results of      *)
(* fallible functions are records [tag, val]: tag "Ok" or the error's      *)
(* name.                                                                   *)
(***************************************************************************)
EXTENDS Integers, Sequences, FiniteSets, TLC

VARIABLES
    input,      \* b45.rs: the text handed to base45_decode, as bytes
    triples,    \* b45.rs: number of 3-byte chunks the loop has consumed
    out,        \* b45.rs: the output vector built so far
    ret,        \* b45.rs: what base45_decode returned ("None" while running)
    slots,      \* dcc/mod.rs: CertVisitor::visit_map's four Option locals
    inner,      \* dcc/mod.rs: CertInnerVisitor::visit_map's Option local `cert`
    phase,      \* dcc/mod.rs: where the payload decoder stands
    last,       \* dcc/mod.rs: key and value shape of the entry read last
    read,       \* dcc/mod.rs: the top-level keys of the map read so far
    cert,       \* dcc/mod.rs: what CertVisitor::visit_map returned
    trustlist,  \* main.rs: TRUSTLIST, None or the certificates in load order
    buf,        \* main.rs: the token read from the file or standard input
    sign1,      \* main.rs: the envelope load_sign1 returned
    pc,         \* main.rs: where main() stands
    found,      \* main.rs: index of the certificate `find` returned, 0 for none
    alg,        \* main.rs: what get_pk_sig_algorithm returned
    verified,   \* main.rs: results of the pubkey.verify calls made, in order
    trace,      \* main.rs: the lines printed and logged, in order
    exit,       \* main.rs: the Result main() returned ("None" while running)
    token,      \* dcc/mod.rs: load_sign1's argument `buf`, as bytes
    rest,       \* dcc/mod.rs: load_sign1's local `text`
    decoded,    \* dcc/mod.rs: load_sign1's local `decoded`
    inflated,   \* dcc/mod.rs: load_sign1's local `s`
    calls,      \* dcc/mod.rs: the decoders load_sign1 called, with their input
    lpc,        \* dcc/mod.rs: where load_sign1 stands
    lret,       \* dcc/mod.rs: what load_sign1 returned
    ehn_data,   \* main.rs: EHN_DATA, None or the four optional value sets
    field,      \* dcc/mod.rs: the coded field being deserialized
    code,       \* valuesets.rs: the string handed to visit_string
    vs_entry    \* valuesets.rs: what deserialize_set_value returned

b45vars == <<input, triples, out, ret>>

dccvars == <<slots, inner, phase, last, read, cert>>

mainvars == <<trustlist, buf, sign1, pc, found, alg, verified, trace, exit>>

loadvars == <<token, rest, decoded, inflated, calls, lpc, lret>>

vsvars == <<ehn_data, field, code, vs_entry>>

vars ==
    <<input, triples, out, ret, slots, inner, phase, last, read, cert,
      trustlist, buf, sign1, pc, found, alg, verified, trace, exit,
      token, rest, decoded, inflated, calls, lpc, lret,
      ehn_data, field, code, vs_entry>>

(***************************************************************************)
(* Bounds of the model                                                     *)
(***************************************************************************)
\* longest sampled input of base45_decode
MaxInputLen == 6

(***************************************************************************)
(* src/b45.rs                                                              *)
(***************************************************************************)
Ok(v) == [tag |-> "Ok", val |-> v]

Err(kind, v) == [tag |-> kind, val |-> v]

\* base45_cval: '0'..'9' -> 0..9, 'A'..'Z' -> 10..35, then " $%*+-./:" -> 36..44
base45_cval(b) ==
    IF b >= 48 /\ b <= 57 THEN Ok(b - 48)
    ELSE IF b >= 65 /\ b <= 90 THEN Ok((b - 65) + 10)
    ELSE IF b = 32 THEN Ok(36)
    ELSE IF b = 36 THEN Ok(37)
    ELSE IF b = 37 THEN Ok(38)
    ELSE IF b = 42 THEN Ok(39)
    ELSE IF b = 43 THEN Ok(40)
    ELSE IF b = 45 THEN Ok(41)
    ELSE IF b = 46 THEN Ok(42)
    ELSE IF b = 47 THEN Ok(43)
    ELSE IF b = 58 THEN Ok(44)
    ELSE Err("InvalidChar", b)

\* u16::to_le_bytes
to_le_bytes(r) == <<r % 256, r \div 256>>

\* a mutant of base45_cdec: the sum is cast to 16 bits instead of checked
base45_cdec_Wrapping(t) ==
    LET c == base45_cval(t[1])
        d == base45_cval(t[2])
        e == base45_cval(t[3])
    IN  IF c.tag # "Ok" THEN c
        ELSE IF d.tag # "Ok" THEN d
        ELSE IF e.tag # "Ok" THEN e
        ELSE Ok(to_le_bytes((c.val + 45 * d.val + 45 * 45 * e.val) % 65536))

\* a mutant of base45_cdec: the byte pair is written high byte first
base45_cdec_BigEndian(t) ==
    LET c == base45_cval(t[1])
        d == base45_cval(t[2])
        e == base45_cval(t[3])
        sum == c.val + 45 * d.val + 45 * 45 * e.val
    IN  IF c.tag # "Ok" THEN c
        ELSE IF d.tag # "Ok" THEN d
        ELSE IF e.tag # "Ok" THEN e
        ELSE IF sum > 65535 THEN Err("InvalidTriple", sum)
        ELSE Ok(<<sum \div 256, sum % 256>>)

\* base45_cdec: the three values in order (each `?` returns the first error),
\* the u32 sum (at most 44 + 45*44 + 2025*44 = 91124, so u32 never wraps),
\* u16::try_from, the little-endian pair
base45_cdec(t) ==
    LET c == base45_cval(t[1])
        d == base45_cval(t[2])
        e == base45_cval(t[3])
        sum == c.val + 45 * d.val + 45 * 45 * e.val
    IN  IF c.tag # "Ok" THEN c
        ELSE IF d.tag # "Ok" THEN d
        ELSE IF e.tag # "Ok" THEN e
        ELSE IF sum > 65535 THEN Err("InvalidTriple", sum)
        ELSE Ok(to_le_bytes(sum))

\* bytes.chunks_exact(3): the i-th chunk, and what is left after the last one
chunk(bytes, i) == SubSeq(bytes, 3 * i - 2, 3 * i)

nchunks(bytes) == Len(bytes) \div 3

remainder(bytes) == SubSeq(bytes, 3 * nchunks(bytes) + 1, Len(bytes))

\* base45_decode is not running
IdleB45 ==
    /\ input = <<>>
    /\ triples = 0
    /\ out = <<>>
    /\ ret = [tag |-> "Idle", val |-> 0]

\* the payload decoder is not running
IdleDcc ==
    /\ slots = <<>>
    /\ inner = <<>>
    /\ phase = "idle"
    /\ last = <<>>
    /\ read = {}
    /\ cert = [tag |-> "Idle", val |-> 0]

\* main() is not running
IdleMain ==
    /\ trustlist = <<>>
    /\ buf = <<>>
    /\ sign1 = <<>>
    /\ pc = "idle"
    /\ found = 0
    /\ alg = [tag |-> "Idle", val |-> ""]
    /\ verified = <<>>
    /\ trace = <<>>
    /\ exit = "Idle"

\* load_sign1 is not running
IdleLoad ==
    /\ token = <<>>
    /\ rest = <<>>
    /\ decoded = <<>>
    /\ inflated = <<>>
    /\ calls = <<>>
    /\ lpc = "idle"
    /\ lret = [tag |-> "Idle", val |-> 0]

\* no coded field is being deserialized
IdleVs ==
    /\ ehn_data = <<>>
    /\ field = "idle"
    /\ code = <<>>
    /\ vs_entry = [tag |-> "Idle", val |-> 0]

\* the 45 symbols of the alphabet: digits, upper-case letters, " $%*+-./:"
Alphabet == (48..57) \cup (65..90) \cup {32, 36, 37, 42, 43, 45, 46, 47, 58}

\* sampled bytes for the longer inputs: '0' (0), 'F' (15), ':' (44), '~' (none)
SampleBytes == {48, 70, 58, 126}

SeqsUpTo(S, n) == UNION {[1..k -> S] : k \in 0..n}

\* every group of three alphabet symbols, and every sampled text up to the bound
B45Inputs == [1..3 -> Alphabet] \cup SeqsUpTo(SampleBytes, MaxInputLen)

InitB45 ==
    /\ input \in B45Inputs
    /\ triples = 0
    /\ out = <<>>
    /\ ret = [tag |-> "None", val |-> 0]
    /\ IdleDcc
    /\ IdleMain
    /\ IdleLoad
    /\ IdleVs

\* one round of `while let Some(triple) = triples.next()`
DecodeTriple ==
    /\ ret.tag = "None"
    /\ triples < nchunks(input)
    /\ LET r == base45_cdec(chunk(input, triples + 1))
       IN  IF r.tag = "Ok"
           THEN /\ out' = out \o r.val
                /\ triples' = triples + 1
                /\ ret' = ret
           ELSE /\ ret' = r
                /\ UNCHANGED <<out, triples>>
    /\ UNCHANGED <<input, dccvars, mainvars, loadvars, vsvars>>

\* the loop is over: `if let [_c, _d] = triples.remainder()`, else Ok(out)
DecodeRemainder ==
    /\ ret.tag = "None"
    /\ triples = nchunks(input)
    /\ ret' = IF Len(remainder(input)) = 2
              THEN Err("Unimplemented", 0)
              ELSE Ok(out)
    /\ UNCHANGED <<input, triples, out, dccvars, mainvars, loadvars, vsvars>>

NextB45 == DecodeTriple \/ DecodeRemainder

SpecB45 == InitB45 /\ [][NextB45]_vars

(***************************************************************************)
(* src/dcc/mod.rs: the payload decoder                                     *)
(*                                                                         *)
(* A CBOR map is a sequence of entries [key, val].  A key is a 32-bit      *)
(* integer, an integer outside the 32-bit range, or a text string; a value *)
(* has a shape ("text", "int", "map", or "dcc" for a map holding a         *)
(* well-formed DigitalCovidCertificate), a content number n and, for a     *)
(* map, its entries.                                                       *)
(***************************************************************************)
I32(n) == [kind |-> "i32", n |-> n]

WideKey == [kind |-> "i64", n |-> 0]

TextKey == [kind |-> "text", n |-> 0]

Scalar(shape, n) == [shape |-> shape, n |-> n, entries |-> <<>>]

MapVal(entries) == [shape |-> "map", n |-> 0, entries |-> entries]

Entry(k, v) == [key |-> k, val |-> v]

None == [some |-> FALSE, v |-> 0]

Some(v) == [some |-> TRUE, v |-> v]

\* map.next_key()? with the key read as i32 (the type of the match patterns
\* 1, 4, 6, -260): an integer outside i32 or a key that is no integer fails
next_key(k) ==
    IF k.kind = "i32" THEN Ok(k.n)
    ELSE IF k.kind = "i64" THEN Err("invalid_value", "key")
    ELSE Err("invalid_type", "key")

\* map.next_value()? into a String
String_deserialize(v) ==
    IF v.shape = "text" THEN Ok(v.n) ELSE Err("invalid_type", "string")

\* map.next_value()? into a Timestamp: seconds since the epoch
Timestamp_deserialize(v) ==
    IF v.shape = "int" THEN Ok(v.n) ELSE Err("invalid_type", "timestamp")

\* map.next_value()? into a DigitalCovidCertificate (derived Deserialize)
DigitalCovidCertificate_deserialize(v) ==
    IF v.shape = "dcc" THEN Ok(v.n) ELSE Err("invalid_type", "dcc")

\* one round of CertInnerVisitor::visit_map's loop on entry e, `cert` being c
CertInner_entry(c, e) ==
    LET k == next_key(e.key)
    IN  IF k.tag # "Ok" THEN k
        ELSE IF k.val = 1
        THEN LET v == DigitalCovidCertificate_deserialize(e.val)
             IN  IF v.tag = "Ok" THEN Ok(Some(v.val)) ELSE v
        ELSE Ok(c)

\* the end of CertInnerVisitor::visit_map: `cert` is required
CertInner_finish(c) ==
    IF c.some THEN Ok(c.v) ELSE Err("missing_field", "cert (1)")

RECURSIVE CertInner_entries(_, _, _)
\* CertInnerVisitor::visit_map's loop over entries i.. of a whole map
CertInner_entries(c, entries, i) ==
    IF i > Len(entries) THEN CertInner_finish(c)
    ELSE LET r == CertInner_entry(c, entries[i])
         IN  IF r.tag = "Ok" THEN CertInner_entries(r.val, entries, i + 1) ELSE r

\* HealthClaim::deserialize: deserialize_map(CertInnerVisitor)
HealthClaim_deserialize(v) ==
    IF v.shape = "map" THEN CertInner_entries(None, v.entries, 1)
    ELSE Err("invalid_type", "health_claim")

\* a mutant of Cert_entry: an unknown key's value is read as an integer
Cert_entry_UnknownAsInt(sl, e) ==
    LET k == next_key(e.key)
    IN  IF k.tag # "Ok" THEN k
        ELSE IF k.val = 1
        THEN LET v == String_deserialize(e.val)
             IN  IF v.tag = "Ok" THEN Ok([sl EXCEPT !.issuer = Some(v.val)]) ELSE v
        ELSE IF k.val = 4
        THEN LET v == Timestamp_deserialize(e.val)
             IN  IF v.tag = "Ok"
                 THEN Ok([sl EXCEPT !.expiration_time = Some(v.val)]) ELSE v
        ELSE IF k.val = 6
        THEN LET v == Timestamp_deserialize(e.val)
             IN  IF v.tag = "Ok" THEN Ok([sl EXCEPT !.issued_at = Some(v.val)]) ELSE v
        ELSE IF k.val = -260
        THEN LET v == HealthClaim_deserialize(e.val)
             IN  IF v.tag = "Ok"
                 THEN Ok([sl EXCEPT !.health_claim = Some(v.val)]) ELSE v
        ELSE LET v == Timestamp_deserialize(e.val)
             IN  IF v.tag = "Ok" THEN Ok(sl) ELSE v

\* one round of CertVisitor::visit_map's loop on entry e, the locals being sl;
\* an unknown key's value is read as IgnoredAny, which takes any value
Cert_entry(sl, e) ==
    LET k == next_key(e.key)
    IN  IF k.tag # "Ok" THEN k
        ELSE IF k.val = 1
        THEN LET v == String_deserialize(e.val)
             IN  IF v.tag = "Ok" THEN Ok([sl EXCEPT !.issuer = Some(v.val)]) ELSE v
        ELSE IF k.val = 4
        THEN LET v == Timestamp_deserialize(e.val)
             IN  IF v.tag = "Ok"
                 THEN Ok([sl EXCEPT !.expiration_time = Some(v.val)]) ELSE v
        ELSE IF k.val = 6
        THEN LET v == Timestamp_deserialize(e.val)
             IN  IF v.tag = "Ok" THEN Ok([sl EXCEPT !.issued_at = Some(v.val)]) ELSE v
        ELSE IF k.val = -260
        THEN LET v == HealthClaim_deserialize(e.val)
             IN  IF v.tag = "Ok"
                 THEN Ok([sl EXCEPT !.health_claim = Some(v.val)]) ELSE v
        ELSE Ok(sl)

\* a mutant of Cert_finish: a missing health claim is not checked
Cert_finish_NoHealthClaimCheck(sl) ==
    IF ~sl.issuer.some THEN Err("missing_field", "issuer (1)")
    ELSE IF ~sl.expiration_time.some THEN Err("missing_field", "expiration_time (4)")
    ELSE IF ~sl.issued_at.some THEN Err("missing_field", "issued_at (6)")
    ELSE Ok([issuer |-> sl.issuer.v,
             expiration_time |-> sl.expiration_time.v,
             issued_at |-> sl.issued_at.v,
             health_claim |-> sl.health_claim.v])

\* the end of CertVisitor::visit_map: the four required fields, in this order
Cert_finish(sl) ==
    IF ~sl.issuer.some THEN Err("missing_field", "issuer (1)")
    ELSE IF ~sl.expiration_time.some THEN Err("missing_field", "expiration_time (4)")
    ELSE IF ~sl.issued_at.some THEN Err("missing_field", "issued_at (6)")
    ELSE IF ~sl.health_claim.some THEN Err("missing_field", "health_claim (-260)")
    ELSE Ok([issuer |-> sl.issuer.v,
             expiration_time |-> sl.expiration_time.v,
             issued_at |-> sl.issued_at.v,
             health_claim |-> sl.health_claim.v])

\* the locals of CertVisitor::visit_map before the loop
EmptySlots ==
    [issuer |-> None, expiration_time |-> None, issued_at |-> None,
     health_claim |-> None]

RECURSIVE Cert_entries(_, _, _)
\* CertVisitor::visit_map's loop over entries i.. of a whole map
Cert_entries(sl, entries, i) ==
    IF i > Len(entries) THEN Cert_finish(sl)
    ELSE LET r == Cert_entry(sl, entries[i])
         IN  IF r.tag = "Ok" THEN Cert_entries(r.val, entries, i + 1) ELSE r

\* CertPayload::deserialize: deserialize_map(CertVisitor)
CertPayload_deserialize(v) ==
    IF v.shape = "map" THEN Cert_entries(EmptySlots, v.entries, 1)
    ELSE Err("invalid_type", "payload")

\* the entries the environment may feed to the top-level map; a map value's
\* own entries are fed one at a time once the decoder has entered it
TopKeys == {I32(1), I32(4), I32(6), I32(-260), I32(99), I32(-1), WideKey, TextKey}

TopVals ==
    {Scalar("text", 1), Scalar("text", 2),
     Scalar("int", 1690000000), Scalar("int", 1700000000), MapVal(<<>>)}

InnerKeys == {I32(1), I32(2), I32(-260), WideKey, TextKey}

InnerVals ==
    {Scalar("dcc", 1), Scalar("dcc", 2), Scalar("int", 7), Scalar("text", 1),
     MapVal(<<>>)}

Seen(e) == [key |-> e.key, shape |-> e.val.shape]

InitDcc ==
    /\ slots = EmptySlots
    /\ inner = None
    /\ phase = "top"
    /\ last = Seen(Entry(I32(0), Scalar("none", 0)))
    /\ read = {}
    /\ cert = [tag |-> "None", val |-> 0]
    /\ IdleB45
    /\ IdleMain
    /\ IdleLoad
    /\ IdleVs

\* a mutant of VisitNext: the loop reads an unknown key's value as an integer
VisitNext_UnknownAsInt ==
    /\ phase = "top"
    /\ \E k \in TopKeys, v \in TopVals :
          LET e == Entry(k, v)
              key == next_key(k)
          IN  /\ last' = Seen(e)
              /\ read' = read \cup {k}
              /\ IF key.tag = "Ok" /\ key.val = -260 /\ v.shape = "map"
                 THEN /\ phase' = "inner"
                      /\ inner' = None
                      /\ UNCHANGED <<slots, cert>>
                 ELSE LET r == Cert_entry_UnknownAsInt(slots, e)
                      IN  IF r.tag = "Ok"
                          THEN /\ slots' = r.val
                               /\ UNCHANGED <<phase, inner, cert>>
                          ELSE /\ cert' = r
                               /\ phase' = "failed"
                               /\ UNCHANGED <<slots, inner>>
    /\ UNCHANGED <<b45vars, mainvars, loadvars, vsvars>>

\* CertVisitor::visit_map: next_key() gave an entry.  The health claim's map is
\* entered (its entries follow one by one); any other value is read whole.
VisitNext ==
    /\ phase = "top"
    /\ \E k \in TopKeys, v \in TopVals :
          LET e == Entry(k, v)
              key == next_key(k)
          IN  /\ last' = Seen(e)
              /\ read' = read \cup {k}
              /\ IF key.tag = "Ok" /\ key.val = -260 /\ v.shape = "map"
                 THEN /\ phase' = "inner"
                      /\ inner' = None
                      /\ UNCHANGED <<slots, cert>>
                 ELSE LET r == Cert_entry(slots, e)
                      IN  IF r.tag = "Ok"
                          THEN /\ slots' = r.val
                               /\ UNCHANGED <<phase, inner, cert>>
                          ELSE /\ cert' = r
                               /\ phase' = "failed"
                               /\ UNCHANGED <<slots, inner>>
    /\ UNCHANGED <<b45vars, mainvars, loadvars, vsvars>>

\* CertVisitor::visit_map: next_key() gave None, the whole map has been read
VisitEnd ==
    /\ phase = "top"
    /\ cert' = Cert_finish(slots)
    /\ phase' = "end"
    /\ UNCHANGED <<slots, inner, last, read, b45vars, mainvars, loadvars, vsvars>>

\* CertInnerVisitor::visit_map: next_key() gave an entry
InnerNext ==
    /\ phase = "inner"
    /\ \E k \in InnerKeys, v \in InnerVals :
          LET r == CertInner_entry(inner, Entry(k, v))
          IN  /\ last' = Seen(Entry(k, v))
              /\ IF r.tag = "Ok"
                 THEN /\ inner' = r.val
                      /\ UNCHANGED <<phase, cert>>
                 ELSE /\ cert' = r
                      /\ phase' = "inner_failed"
                      /\ UNCHANGED inner
    /\ UNCHANGED <<slots, read, b45vars, mainvars, loadvars, vsvars>>

\* CertInnerVisitor::visit_map: next_key() gave None; back in CertVisitor's
\* loop, `health_claim = Some(map.next_value()?)`
InnerEnd ==
    /\ phase = "inner"
    /\ LET r == CertInner_finish(inner)
       IN  IF r.tag = "Ok"
           THEN /\ slots' = [slots EXCEPT !.health_claim = Some(r.val)]
                /\ phase' = "top"
                /\ UNCHANGED cert
           ELSE /\ cert' = r
                /\ phase' = "inner_end_failed"
                /\ UNCHANGED slots
    /\ UNCHANGED <<inner, last, read, b45vars, mainvars, loadvars, vsvars>>

NextDcc == VisitNext \/ VisitEnd \/ InnerNext \/ InnerEnd

SpecDcc == InitDcc /\ [][NextDcc]_vars

(***************************************************************************)
(* src/main.rs, src/cert.rs and load_sign1 of src/dcc/mod.rs               *)
(*                                                                         *)
(* Texts (the token, a base64 key identifier) are sequences of ASCII       *)
(* codes.  What the library decoders (base45, zlib, COSE) make of the text *)
(* after the prefix comes with the token, in buf.decoded.  A certificate's *)
(* raw_data is described by what base64 and X.509 parsing find in it.      *)
(***************************************************************************)
\* longest trust list
MaxCerts == 2

\* "HC1:"
HC1 == <<72, 67, 49, 58>>

RECURSIVE trim_end_matches(_, _)
\* str::trim_end_matches(ch)
trim_end_matches(text, ch) ==
    IF Len(text) > 0 /\ text[Len(text)] = ch
    THEN trim_end_matches(SubSeq(text, 1, Len(text) - 1), ch)
    ELSE text

\* a mutant of strip_prefix: the leading characters are dropped unread
strip_prefix_Lenient(text, prefix) ==
    IF Len(text) >= Len(prefix)
    THEN [some |-> TRUE, v |-> SubSeq(text, Len(prefix) + 1, Len(text))]
    ELSE [some |-> FALSE, v |-> <<>>]

\* str::strip_prefix(prefix)
strip_prefix(text, prefix) ==
    IF Len(text) >= Len(prefix) /\ SubSeq(text, 1, Len(prefix)) = prefix
    THEN [some |-> TRUE, v |-> SubSeq(text, Len(prefix) + 1, Len(text))]
    ELSE [some |-> FALSE, v |-> <<>>]

\* load_sign1: trim the newlines, strip "HC1:", then base45, zlib and COSE
\* decoding in this order, each `?` returning its error
load_sign1(b) ==
    LET text == trim_end_matches(b.text, 10)
        tail == strip_prefix(text, HC1)
    IN  IF ~tail.some THEN Err("eyre", "Expected a string that starts with 'HC1:'")
        ELSE IF b.decoded.stage = "base45" THEN Err("base45", "decode")
        ELSE IF b.decoded.stage = "zlib" THEN Err("io", "read_to_end")
        ELSE IF b.decoded.stage = "cose" THEN Err("cose", "from_slice")
        ELSE Ok(b.decoded.sign1)

\* the i-th character of the standard base64 alphabet, i in 0..63
B64Char(i) ==
    IF i < 26 THEN 65 + i
    ELSE IF i < 52 THEN 97 + (i - 26)
    ELSE IF i < 62 THEN 48 + (i - 52)
    ELSE IF i = 62 THEN 43
    ELSE 47

RECURSIVE base64_encode(_)
\* base64::encode: three bytes to four characters, '=' padding on the last group
base64_encode(bytes) ==
    IF Len(bytes) = 0 THEN <<>>
    ELSE IF Len(bytes) = 1
    THEN <<B64Char(bytes[1] \div 4), B64Char((bytes[1] % 4) * 16), 61, 61>>
    ELSE IF Len(bytes) = 2
    THEN <<B64Char(bytes[1] \div 4),
           B64Char((bytes[1] % 4) * 16 + bytes[2] \div 16),
           B64Char((bytes[2] % 16) * 4), 61>>
    ELSE <<B64Char(bytes[1] \div 4),
           B64Char((bytes[1] % 4) * 16 + bytes[2] \div 16),
           B64Char((bytes[2] % 16) * 4 + bytes[3] \div 64),
           B64Char(bytes[3] % 64)>>
         \o base64_encode(SubSeq(bytes, 4, Len(bytes)))

\* a mutant of find_kid: the key identifier is not compared
find_kid_First(certs, b64_kid) == IF Len(certs) > 0 THEN 1 ELSE 0

\* a mutant of find_kid: the last certificate with the key identifier
find_kid_Last(certs, b64_kid) ==
    IF \E i \in 1..Len(certs) : certs[i].kid = b64_kid
    THEN CHOOSE i \in 1..Len(certs) :
             /\ certs[i].kid = b64_kid
             /\ \A j \in 1..Len(certs) : certs[j].kid = b64_kid => j <= i
    ELSE 0

\* t.certificates.iter().find(|&c| c.kid == b64_kid): the index of the first
\* certificate whose kid string equals b64_kid, 0 for None
find_kid(certs, b64_kid) ==
    IF \E i \in 1..Len(certs) : certs[i].kid = b64_kid
    THEN CHOOSE i \in 1..Len(certs) :
             /\ certs[i].kid = b64_kid
             /\ \A j \in 1..(i - 1) : certs[j].kid # b64_kid
    ELSE 0

\* TRUSTLIST.get().and_then(...): None when the list was never set
lookup(tl, b64_kid) ==
    IF tl.loaded THEN find_kid(tl.certificates, b64_kid) ELSE 0

\* the OID registry of get_pk_sig_algorithm: with_crypto, with_x509 and the
\* prime256v1 entry it inserts; the short name of each registered OID
Registry ==
    [oid \in {"1.2.840.10045.2.1", "1.2.840.113549.1.1.1",
              "1.2.840.10045.3.1.7", "1.3.132.0.34"} |->
        CASE oid = "1.2.840.10045.2.1" -> "id-ecPublicKey"
          [] oid = "1.2.840.113549.1.1.1" -> "rsaEncryption"
          [] oid = "1.2.840.10045.3.1.7" -> "prime256v1"
          [] oid = "1.3.132.0.34" -> "secp384r1"]

\* a mutant of get_pk_sig_algorithm: the curve's name is not compared
get_pk_sig_algorithm_AnyCurve(sigpki) ==
    IF sigpki.algorithm \notin DOMAIN Registry THEN Err("eyre", "Unknown algorithm")
    ELSE IF Registry[sigpki.algorithm] # "id-ecPublicKey"
    THEN Err("eyre", "Unknown algorithm")
    ELSE IF sigpki.parameters.kind = "none"
    THEN Err("eyre", "Expected prime parameter for 'id-ecPublicKey'")
    ELSE IF sigpki.parameters.kind # "oid" THEN Err("ber", "as_oid")
    ELSE IF sigpki.parameters.oid \notin DOMAIN Registry
    THEN Err("eyre", "Unknown prime parameter")
    ELSE Ok("IdEcPublicKey(Prime256v1)")

\* get_pk_sig_algorithm: Ok only for id-ecPublicKey with the prime256v1 curve
get_pk_sig_algorithm(sigpki) ==
    IF sigpki.algorithm \notin DOMAIN Registry THEN Err("eyre", "Unknown algorithm")
    ELSE IF Registry[sigpki.algorithm] # "id-ecPublicKey"
    THEN Err("eyre", "Unknown algorithm")
    ELSE IF sigpki.parameters.kind = "none"
    THEN Err("eyre", "Expected prime parameter for 'id-ecPublicKey'")
    ELSE IF sigpki.parameters.kind # "oid" THEN Err("ber", "as_oid")
    ELSE IF sigpki.parameters.oid \notin DOMAIN Registry
    THEN Err("eyre", "Unknown prime parameter")
    ELSE IF Registry[sigpki.parameters.oid] # "prime256v1"
    THEN Err("eyre", "Unsupported prime parameter")
    ELSE Ok("IdEcPublicKey(Prime256v1)")

\* Sig::from(sign1) and its CBOR encoding: the Signature1 structure
Sig(s) == <<"Signature1", s.protected, <<>>, s.payload>>

\* UnparsedPublicKey::verify with ECDSA_P256_SHA256_FIXED: the signature must
\* have been made with the private key of pubkey over exactly this message
ecdsa_verify(pubkey, message, signature) ==
    signature.key = pubkey /\ signature.msg = message

(* sampled inputs *)
KidA == <<217, 25, 55, 95, 193, 231, 182, 178>>

KidB == <<255>>

\* a text without its trailing '=' characters
Unpadded(text) == trim_end_matches(text, 61)

\* kid strings a trust list may hold: the padded base64 of a key identifier,
\* and the same base64 written without padding
KidTexts == {base64_encode(KidA), Unpadded(base64_encode(KidA)), base64_encode(KidB)}

Params(kind, oid) == [kind |-> kind, oid |-> oid]

RawData(b64, der, algorithm, parameters, key) ==
    [b64 |-> b64, der |-> der, algorithm |-> algorithm, parameters |-> parameters,
     key |-> key]

\* raw_data values: not base64, not a certificate, an unregistered algorithm,
\* RSA, EC without / with a non-OID / an unregistered / a secp384r1 parameter,
\* and P-256 certificates of two different keys
RawDatas ==
    {RawData(FALSE, FALSE, "", Params("none", ""), ""),
     RawData(TRUE, FALSE, "", Params("none", ""), ""),
     RawData(TRUE, TRUE, "1.3.101.112", Params("none", ""), "keyA"),
     RawData(TRUE, TRUE, "1.2.840.113549.1.1.1", Params("null", ""), "keyA"),
     RawData(TRUE, TRUE, "1.2.840.10045.2.1", Params("none", ""), "keyA"),
     RawData(TRUE, TRUE, "1.2.840.10045.2.1", Params("null", ""), "keyA"),
     RawData(TRUE, TRUE, "1.2.840.10045.2.1", Params("oid", "1.3.36.3.3.2.8.1.1.7"), "keyA"),
     RawData(TRUE, TRUE, "1.2.840.10045.2.1", Params("oid", "1.3.132.0.34"), "keyA"),
     RawData(TRUE, TRUE, "1.2.840.10045.2.1", Params("oid", "1.2.840.10045.3.1.7"), "keyA"),
     RawData(TRUE, TRUE, "1.2.840.10045.2.1", Params("oid", "1.2.840.10045.3.1.7"), "keyB")}

P256(key) ==
    RawData(TRUE, TRUE, "1.2.840.10045.2.1", Params("oid", "1.2.840.10045.3.1.7"), key)

Certificate(kid, raw_data) == [kid |-> kid, raw_data |-> raw_data]

\* sampled trust-list entries: every raw_data under KidA's base64, a P-256
\* certificate under KidA's unpadded base64, two certificates under KidB's
Certificates ==
    {Certificate(base64_encode(KidA), r) : r \in RawDatas}
    \cup {Certificate(Unpadded(base64_encode(KidA)), P256("keyA"))}
    \cup {Certificate(base64_encode(KidB), r) :
             r \in {P256("keyA"),
                    RawData(TRUE, TRUE, "1.2.840.113549.1.1.1", Params("null", ""), "keyA")}}

TrustLists ==
    {[loaded |-> FALSE, certificates |-> <<>>]}
    \cup {[loaded |-> TRUE, certificates |-> c] : c \in SeqsUpTo(Certificates, MaxCerts)}

\* a payload with the four required entries and an unknown key, and one
\* without the health claim
GoodPayload ==
    MapVal(<<Entry(I32(1), Scalar("text", 1)),
             Entry(I32(4), Scalar("int", 1700000000)),
             Entry(I32(99), Scalar("text", 2)),
             Entry(I32(6), Scalar("int", 1690000000)),
             Entry(I32(-260), MapVal(<<Entry(I32(1), Scalar("dcc", 1))>>))>>)

NoClaimPayload ==
    MapVal(<<Entry(I32(1), Scalar("text", 1)),
             Entry(I32(4), Scalar("int", 1700000000)),
             Entry(I32(6), Scalar("int", 1690000000))>>)

\* envelopes: signed by keyA over their own Signature1 bytes, or carrying a
\* signature keyA made over another payload
Envelope(kid, payload, signed_payload) ==
    [kid |-> kid, protected |-> "alg:ES256", payload |-> payload,
     signature |-> [key |-> "keyA",
                    msg |-> <<"Signature1", "alg:ES256", <<>>, signed_payload>>]]

Envelopes ==
    {Envelope(k, pl, spl) : k \in {KidA, KidB},
                            pl \in {GoodPayload, NoClaimPayload},
                            spl \in {GoodPayload, NoClaimPayload}}

NoEnvelope == Envelope(<<>>, MapVal(<<>>), MapVal(<<>>))

\* "HC1:6BF" with a newline, then texts with a wrong and with a cut prefix
Tokens ==
    {[text |-> HC1 \o <<54, 66, 70, 10>>, decoded |-> [stage |-> "ok", sign1 |-> e]]
        : e \in Envelopes}
    \cup {[text |-> HC1 \o <<54, 66, 70, 10>>,
           decoded |-> [stage |-> st, sign1 |-> NoEnvelope]]
        : st \in {"base45", "zlib", "cose"}}
    \cup {[text |-> t, decoded |-> [stage |-> "base45", sign1 |-> NoEnvelope]]
        : t \in {<<72, 67, 50, 58, 54, 66, 70, 10>>, <<72, 67, 49>>}}

\* main() up to the read of the token: the trust list is set if it loaded
InitMain ==
    /\ trustlist \in TrustLists
    /\ buf \in Tokens
    /\ sign1 = NoEnvelope
    /\ pc = "load_sign1"
    /\ found = 0
    /\ alg = [tag |-> "None", val |-> ""]
    /\ verified = <<>>
    /\ trace = <<>>
    /\ exit = "None"
    /\ IdleB45
    /\ IdleDcc
    /\ IdleLoad
    /\ IdleVs

\* `let sign1 = load_sign1(&buf)?;` and the info line
LoadSign1 ==
    /\ pc = "load_sign1"
    /\ LET r == load_sign1(buf)
       IN  IF r.tag = "Ok"
           THEN /\ sign1' = r.val
                /\ trace' = Append(trace, "info: Well-formed COSE certificate")
                /\ pc' = "try_from"
                /\ UNCHANGED exit
           ELSE /\ exit' = "Err"
                /\ pc' = "returned"
                /\ UNCHANGED <<sign1, trace>>
    /\ UNCHANGED <<trustlist, buf, found, alg, verified, b45vars, dccvars, loadvars, vsvars>>

\* a mutant of DecodePayload: the record is not printed
DecodePayload_NoPrint ==
    /\ pc = "try_from"
    /\ LET v == CertPayload_deserialize(sign1.payload)
       IN  IF v.tag = "Ok"
           THEN /\ trace' = Append(trace, "info: Well-formed Digital-Covid-Certificate")
                /\ pc' = "find"
                /\ UNCHANGED exit
           ELSE /\ exit' = "Err"
                /\ pc' = "returned"
                /\ UNCHANGED trace
    /\ UNCHANGED <<trustlist, buf, sign1, found, alg, verified, b45vars, dccvars, loadvars, vsvars>>

\* a mutant of DecodePayload: a decode error is skipped over
DecodePayload_SkipError ==
    /\ pc = "try_from"
    /\ LET v == CertPayload_deserialize(sign1.payload)
       IN  IF v.tag = "Ok"
           THEN trace' = trace \o <<"info: Well-formed Digital-Covid-Certificate",
                                    "println: record">>
           ELSE UNCHANGED trace
    /\ pc' = "find"
    /\ UNCHANGED <<trustlist, buf, sign1, found, alg, verified, exit, b45vars, dccvars, loadvars, vsvars>>

\* `let v = CertPayload::try_from(&sign1)?;`, the info line and the println of
\* the record
DecodePayload ==
    /\ pc = "try_from"
    /\ LET v == CertPayload_deserialize(sign1.payload)
       IN  IF v.tag = "Ok"
           THEN /\ trace' = trace \o <<"info: Well-formed Digital-Covid-Certificate",
                                       "println: record">>
                /\ pc' = "find"
                /\ UNCHANGED exit
           ELSE /\ exit' = "Err"
                /\ pc' = "returned"
                /\ UNCHANGED trace
    /\ UNCHANGED <<trustlist, buf, sign1, found, alg, verified, b45vars, dccvars, loadvars, vsvars>>

\* `if let Some(cert) = TRUSTLIST.get().and_then(...find...)` and its else
FindCertificate ==
    /\ pc = "find"
    /\ LET i == lookup(trustlist, base64_encode(sign1.kid))
       IN  /\ found' = i
           /\ IF i > 0
              THEN /\ trace' = Append(trace, "info: Found certificate with matching kid")
                   /\ pc' = "algorithm"
                   /\ UNCHANGED exit
              ELSE /\ trace' = Append(trace, "warn: Did not find certificate with matching kid")
                   /\ exit' = "Ok"
                   /\ pc' = "returned"
    /\ UNCHANGED <<trustlist, buf, sign1, alg, verified, b45vars, dccvars, loadvars, vsvars>>

\* the Signature1 bytes, base64::decode(&cert.raw_data)?,
\* parse_x509_certificate(..)? and cert::get_pk_sig_algorithm(sigpki)?
CheckAlgorithm ==
    /\ pc = "algorithm"
    /\ LET raw == trustlist.certificates[found].raw_data
           a == get_pk_sig_algorithm(raw)
       IN  IF raw.b64 /\ raw.der /\ a.tag = "Ok"
           THEN /\ alg' = a
                /\ pc' = "verify"
                /\ UNCHANGED exit
           ELSE /\ exit' = "Err"
                /\ pc' = "returned"
                /\ UNCHANGED alg
    /\ UNCHANGED <<trustlist, buf, sign1, found, verified, trace, b45vars, dccvars, loadvars, vsvars>>

\* `if Algorithm::IdEcPublicKey(Prime::Prime256v1) == alg { verify ... } else
\* { warn }` and the final Ok(())
VerifySignature ==
    /\ pc = "verify"
    /\ LET raw == trustlist.certificates[found].raw_data
           ok == ecdsa_verify(raw.key, Sig(sign1), sign1.signature)
       IN  IF alg.val = "IdEcPublicKey(Prime256v1)"
           THEN /\ verified' = Append(verified, ok)
                /\ IF ok
                   THEN /\ trace' = Append(trace, "info: Verified OK")
                        /\ exit' = "Ok"
                   ELSE /\ exit' = "Err"
                        /\ UNCHANGED trace
           ELSE /\ trace' = Append(trace, "warn: Unknown signature algorithm")
                /\ exit' = "Ok"
                /\ UNCHANGED verified
    /\ pc' = "returned"
    /\ UNCHANGED <<trustlist, buf, sign1, found, alg, b45vars, dccvars, loadvars, vsvars>>

Next == LoadSign1 \/ DecodePayload \/ FindCertificate \/ CheckAlgorithm \/ VerifySignature

Spec == InitMain /\ [][Next]_vars

(***************************************************************************)
(* Properties of src/b45.rs, checked under SpecB45                         *)
(***************************************************************************)
\* the alphabet in value order, "0123456789ABCDEFGHIJKLMNOPQRSTUVWXYZ $%*+-./:"
AlphabetOrder ==
    <<48, 49, 50, 51, 52, 53, 54, 55, 56, 57,
      65, 66, 67, 68, 69, 70, 71, 72, 73, 74, 75, 76, 77,
      78, 79, 80, 81, 82, 83, 84, 85, 86, 87, 88, 89, 90,
      32, 36, 37, 42, 43, 45, 46, 47, 58>>

SymbolValue(b) == (CHOOSE i \in 1..Len(AlphabetOrder) : AlphabetOrder[i] = b) - 1

IsGroup(t) == \A i \in 1..3 : t[i] \in Alphabet

GroupValue(t) ==
    SymbolValue(t[1]) + 45 * SymbolValue(t[2]) + 2025 * SymbolValue(t[3])

RECURSIVE GroupBytes(_, _)
\* the byte pairs of the first n groups of bytes, in input order
GroupBytes(bytes, n) ==
    IF n = 0 THEN <<>>
    ELSE GroupBytes(bytes, n - 1)
         \o <<GroupValue(chunk(bytes, n)) % 256, GroupValue(chunk(bytes, n)) \div 256>>

Returned == ret.tag # "None"

\* C1: a group of three alphabet symbols whose value v_c + 45 v_d + 2025 v_e is
\* at most 65535 decodes to the two bytes [value mod 256, value div 256], and an
\* input made of n such groups decodes to the 2n bytes of the groups' pairs, in
\* input order.
C1_GroupsDecodeLittleEndian ==
    (/\ Len(input) % 3 = 0
     /\ \A i \in 1..nchunks(input) :
            IsGroup(chunk(input, i)) /\ GroupValue(chunk(input, i)) <= 65535)
    => /\ \A i \in 1..nchunks(input) :
            LET r == base45_cdec(chunk(input, i))
                v == GroupValue(chunk(input, i))
            IN  /\ r.tag = "Ok"
                /\ r.val = <<v % 256, v \div 256>>
       /\ out = GroupBytes(input, triples)
       /\ Returned => /\ ret.tag = "Ok"
                      /\ ret.val = GroupBytes(input, nchunks(input))
                      /\ Len(ret.val) = 2 * nchunks(input)

\* C1's case: two different groups were decoded, the first with a high byte
C1_Witness ==
    /\ ret.tag = "Ok"
    /\ nchunks(input) = 2
    /\ Len(ret.val) = 4
    /\ ret.val[2] # 0
    /\ <<ret.val[1], ret.val[2]>> # <<ret.val[3], ret.val[4]>>

\* base45_cval over all 256 bytes: the alphabet onto 0..44 in value order, one
\* to one, and InvalidChar for every other byte
CvalIsBijection ==
    /\ \A b \in 0..255 :
           IF b \in Alphabet
           THEN base45_cval(b).tag = "Ok" /\ base45_cval(b).val = SymbolValue(b)
           ELSE base45_cval(b).tag = "InvalidChar" /\ base45_cval(b).val = b
    /\ {base45_cval(b).val : b \in Alphabet} = 0..44
    /\ Cardinality(Alphabet) = 45

\* C2: base45_decode fails with the invalid-character error whenever a byte
\* outside the alphabet occurs anywhere in the input, a trailing incomplete
\* group included; base45_cval maps the 45 symbols one-to-one onto 0..44 and
\* rejects every other byte.
C2_InvalidCharAlwaysRejected ==
    /\ (Returned /\ \E i \in 1..Len(input) : input[i] \notin Alphabet)
           => ret.tag = "InvalidChar"
    /\ CvalIsBijection

\* C3: base45_decode returns a byte vector only for an input whose length is a
\* multiple of 3; a remainder of 2 and a remainder of 1 are both errors.
C3_OnlyMultiplesOfThreeDecode ==
    ret.tag = "Ok" => Len(input) % 3 = 0

\* C4: a group of three alphabet symbols whose value exceeds 65535 makes
\* base45_cdec fail with InvalidTriple carrying the value, and base45_decode of
\* an input containing such a group fails: the loop never gets past the group
\* and no byte vector is returned.
C4_OverflowingGroupFails ==
    \A i \in 1..nchunks(input) :
        (IsGroup(chunk(input, i)) /\ GroupValue(chunk(input, i)) > 65535)
        => /\ base45_cdec(chunk(input, i)).tag = "InvalidTriple"
           /\ base45_cdec(chunk(input, i)).val = GroupValue(chunk(input, i))
           /\ triples < i
           /\ ret.tag # "Ok"
           /\ (Returned /\ triples = i - 1)
                  => /\ ret.tag = "InvalidTriple"
                     /\ ret.val = GroupValue(chunk(input, i))

\* C4's case: the second group of an input is ":::" (91124) and decode failed on it
C4_Witness ==
    /\ ret.tag = "InvalidTriple"
    /\ ret.val = 91124
    /\ triples = 1
    /\ Len(out) = 2

(***************************************************************************)
(* Properties of the payload decoder, checked under SpecDcc                *)
(***************************************************************************)
RequiredKeys == <<1, 4, 6, -260>>

RequiredNames ==
    <<"issuer (1)", "expiration_time (4)", "issued_at (6)", "health_claim (-260)">>

\* the required entries the map read so far does not hold, as indices 1..4
Absent == {i \in 1..4 : I32(RequiredKeys[i]) \notin read}

FirstAbsent == CHOOSE i \in Absent : \A j \in Absent : i <= j

\* C7: once the whole payload map has been read, decoding fails with a
\* missing-field error whenever one of the four required entries (keys 1, 4, 6,
\* -260) is absent; with only the health claim absent the error names the
\* health claim; a record is produced only when all four are present.
C7_MissingRequiredFieldFails ==
    /\ phase = "end"
           => IF Absent # {}
              THEN /\ cert.tag = "missing_field"
                   /\ cert.val = RequiredNames[FirstAbsent]
                   /\ (Absent = {4} => cert.val = "health_claim (-260)")
              ELSE /\ cert.tag = "Ok"
                   /\ cert.val = [issuer |-> slots.issuer.v,
                                  expiration_time |-> slots.expiration_time.v,
                                  issued_at |-> slots.issued_at.v,
                                  health_claim |-> slots.health_claim.v]
    /\ cert.tag = "Ok" => phase = "end" /\ Absent = {}

\* C7's case: issuer, expiration and issued-at were read, no health claim, and
\* the decoder reported the health claim missing
C7_Witness ==
    /\ phase = "end"
    /\ Absent = {4}
    /\ I32(99) \in read
    /\ cert.tag = "missing_field"
    /\ cert.val = "health_claim (-260)"

Recognized(k) == k \in {I32(1), I32(4), I32(6), I32(-260)}

\* the step read a top-level entry (it did not end the map)
TopEntryStep == phase = "top" /\ phase' # "end"

\* the step read an entry of the health-claim map (it did not end the map)
InnerEntryStep == phase = "inner" /\ phase' \in {"inner", "inner_failed"}

MaxPayloadLen == 4

SampleEntries ==
    {Entry(I32(1), Scalar("text", 1)),
     Entry(I32(4), Scalar("int", 1700000000)),
     Entry(I32(6), Scalar("int", 1690000000)),
     Entry(I32(-260), MapVal(<<Entry(I32(1), Scalar("dcc", 1))>>)),
     Entry(I32(1), Scalar("int", 5))}

UnknownEntries ==
    {Entry(k, v) : k \in {I32(99), I32(-1)},
                   v \in TopVals \cup {MapVal(<<Entry(TextKey, Scalar("dcc", 2))>>)}}

InsertAt(seq, i, e) == SubSeq(seq, 1, i - 1) \o <<e>> \o SubSeq(seq, i, Len(seq))

Same(r1, r2) == r1.tag = r2.tag /\ r1.val = r2.val

\* decoding a sampled map gives the same result with an unknown 32-bit integer
\* key's entry inserted at any position, at the top level and in the health claim
UnknownEntryInsertedAnywhere ==
    /\ \A m \in SeqsUpTo(SampleEntries, MaxPayloadLen) :
       \A i \in 1..(Len(m) + 1) :
       \A u \in UnknownEntries :
           Same(CertPayload_deserialize(MapVal(InsertAt(m, i, u))),
                CertPayload_deserialize(MapVal(m)))
    /\ \A m \in SeqsUpTo({Entry(I32(1), v) : v \in InnerVals}, 2) :
       \A i \in 1..(Len(m) + 1) :
       \A k \in {I32(2), I32(-260)} :
       \A v \in InnerVals :
           Same(HealthClaim_deserialize(MapVal(InsertAt(m, i, Entry(k, v)))),
                HealthClaim_deserialize(MapVal(m)))

B64Index(c) ==
    IF c >= 65 /\ c <= 90 THEN c - 65
    ELSE IF c >= 97 /\ c <= 122 THEN c - 71
    ELSE IF c >= 48 /\ c <= 57 THEN c + 4
    ELSE IF c = 43 THEN 62
    ELSE IF c = 47 THEN 63
    ELSE -1

RECURSIVE B64Bytes(_)
\* the bytes of unpadded base64 characters; <<-1>> where they are no base64
B64Bytes(t) ==
    LET a == B64Index(t[1])
        b == B64Index(t[2])
        c == B64Index(t[3])
        d == B64Index(t[4])
    IN  IF Len(t) = 0 THEN <<>>
        ELSE IF Len(t) = 1 THEN <<-1>>
        ELSE IF Len(t) = 2
        THEN IF a < 0 \/ b < 0 \/ b % 16 # 0 THEN <<-1>>
             ELSE <<a * 4 + b \div 16>>
        ELSE IF Len(t) = 3
        THEN IF a < 0 \/ b < 0 \/ c < 0 \/ c % 4 # 0 THEN <<-1>>
             ELSE <<a * 4 + b \div 16, (b % 16) * 16 + c \div 4>>
        ELSE IF a < 0 \/ b < 0 \/ c < 0 \/ d < 0 THEN <<-1>>
             ELSE <<a * 4 + b \div 16, (b % 16) * 16 + c \div 4, (c % 4) * 64 + d>>
                  \o B64Bytes(SubSeq(t, 5, Len(t)))

\* base64 decoding of a key identifier string, the padding being optional
base64_decode(text) == B64Bytes(Unpadded(text))

\* the bytes each sampled kid string denotes
KidBytes == [t \in KidTexts |-> base64_decode(t)]

\* the kid string denotes these bytes
Denotes(text, bytes) == KidBytes[text] = bytes

Certs == trustlist.certificates

Loaded == load_sign1(buf).tag = "Ok" /\ pc # "load_sign1"

PayloadDecodes == CertPayload_deserialize(sign1.payload).tag = "Ok"

InTrace(line) == \E i \in 1..Len(trace) : trace[i] = line

\* main() has carried out the trust lookup
LookedUp ==
    \/ InTrace("info: Found certificate with matching kid")
    \/ InTrace("warn: Did not find certificate with matching kid")

MainReturned == pc = "returned"

\* the certificate declares id-ecPublicKey with the prime256v1 curve
Supported(raw) ==
    /\ raw.b64 /\ raw.der
    /\ raw.algorithm = "1.2.840.10045.2.1"
    /\ raw.parameters = Params("oid", "1.2.840.10045.3.1.7")

\* the envelope's signature was made by the certificate's key over the
\* Signature1 bytes rebuilt from the envelope
SignatureValid(raw) ==
    /\ sign1.signature.key = raw.key
    /\ sign1.signature.msg = <<"Signature1", sign1.protected, <<>>, sign1.payload>>

\* C5: once a signer with a matching key identifier is found, the run ends Ok
\* (with "Verified OK") only if the signer's certificate declares id-ecPublicKey
\* with prime256v1 and the signature check passed; for any other algorithm
\* identifier the run ends with an error and verify is never called; a signature
\* mismatch ends the run with an error.
C5_OnlySupportedAlgorithmVerifies ==
    found > 0 =>
        LET raw == Certs[found].raw_data
        IN  /\ (exit = "Ok" \/ InTrace("info: Verified OK"))
                   => /\ Supported(raw)
                      /\ SignatureValid(raw)
                      /\ verified = <<TRUE>>
                      /\ exit = "Ok" /\ InTrace("info: Verified OK")
            /\ ~Supported(raw)
                   => /\ verified = <<>>
                      /\ pc # "verify"
                      /\ MainReturned => exit = "Err"
            /\ (Supported(raw) /\ ~SignatureValid(raw) /\ MainReturned)
                   => exit = "Err" /\ verified = <<FALSE>>
            /\ ~InTrace("warn: Unknown signature algorithm")

\* C5's case: the matching signer's certificate is an EC key on secp384r1; the
\* run ended with an error and verify was never called
C5_Witness ==
    /\ found > 0
    /\ Certs[found].raw_data.algorithm = "1.2.840.10045.2.1"
    /\ Certs[found].raw_data.parameters = Params("oid", "1.3.132.0.34")
    /\ MainReturned
    /\ exit = "Err"
    /\ verified = <<>>

\* a certificate of the trust list has the envelope's key identifier
SignerTrusted ==
    /\ trustlist.loaded
    /\ \E i \in 1..Len(Certs) : Certs[i].kid = base64_encode(sign1.kid)

\* C6 (as claimed): a payload decode error does not prevent verification: for a
\* token whose envelope parsed and whose key id matches a trusted signer, the
\* trust lookup is carried out and the signer found before main() returns, also
\* when the payload does not decode.
C6_DecodeErrorDoesNotPreventVerification ==
    (Loaded /\ SignerTrusted /\ ~PayloadDecodes /\ MainReturned)
        => LookedUp /\ found > 0

\* C6 (amended): a payload decode error ends the run with an error before the
\* trust lookup: neither the lookup nor the signature check is carried out for
\* that token; they are carried out only after the payload has decoded and the
\* record has been printed.
C6_DecodeErrorPreventsVerification ==
    /\ (Loaded /\ ~PayloadDecodes)
           => /\ ~LookedUp
              /\ found = 0
              /\ verified = <<>>
              /\ pc \in {"try_from", "returned"}
              /\ MainReturned => exit = "Err"
    /\ (LookedUp \/ found > 0 \/ verified # <<>>)
           => PayloadDecodes /\ InTrace("println: record")

\* C6's case: the envelope parsed, its key id is in the trust list, the payload
\* lacks the health claim, and main() returned the error without a lookup
C6_Witness ==
    /\ Loaded
    /\ SignerTrusted
    /\ ~PayloadDecodes
    /\ MainReturned
    /\ exit = "Err"
    /\ ~LookedUp

\* no certificate of the trust list denotes the envelope's key identifier; so
\* when the list is empty or was never loaded
NoSigner ==
    \/ ~trustlist.loaded
    \/ \A i \in 1..Len(Certs) : ~Denotes(Certs[i].kid, sign1.kid)

\* C9: in a run that reaches the trust lookup, when no signer has the
\* envelope's key identifier (the list empty or never loaded included) the
\* outcome is the "untrusted" warning: verify is never called and main() returns
\* Ok; a failed verification is told apart from it: it returns Err and does not
\* print the warning.
C9_UntrustedIsNotFatal ==
    /\ (LookedUp /\ (NoSigner \/ found = 0))
           => /\ found = 0
              /\ MainReturned /\ exit = "Ok"
              /\ verified = <<>>
              /\ trace[Len(trace)] = "warn: Did not find certificate with matching kid"
              /\ ~InTrace("info: Verified OK")
    /\ (Loaded /\ NoSigner) => verified = <<>> /\ pc \notin {"algorithm", "verify"}
    /\ (verified = <<FALSE>> /\ MainReturned)
           => /\ exit = "Err"
              /\ ~InTrace("warn: Did not find certificate with matching kid")

\* C9's case: a loaded trust list of two signers, neither with the envelope's
\* key identifier; main() warned and returned Ok
C9_Witness ==
    /\ trustlist.loaded
    /\ Len(Certs) = 2
    /\ NoSigner
    /\ LookedUp
    /\ MainReturned
    /\ exit = "Ok"

\* the certificates whose kid denotes the envelope's key identifier bytes
SameBytes == {i \in 1..Len(Certs) : Denotes(Certs[i].kid, sign1.kid)}

\* the certificates whose kid is, as a string, the padded base64 of the
\* envelope's key identifier
SameText == {i \in 1..Len(Certs) : Certs[i].kid = base64_encode(sign1.kid)}

Least(S) == CHOOSE i \in S : \A j \in S : i <= j

\* C10 (as claimed): the lookup selects a signer if and only if its key
\* identifier equals the envelope's as a byte string, the first such signer in
\* load order; an entry denoting the same bytes is never missed and one with
\* different bytes is never selected.
C10_LookupByBytes ==
    LookedUp =>
        IF trustlist.loaded /\ SameBytes # {}
        THEN found = Least(SameBytes)
        ELSE found = 0

\* C10 (amended): the lookup selects a signer if and only if its kid string is
\* exactly the padded standard base64 of the envelope's key identifier, the
\* first such signer in load order; an entry with different bytes is never
\* selected, but an entry that writes the same bytes in another base64 form
\* (without padding) is passed over.
C10_LookupByBase64Text ==
    LookedUp =>
        /\ IF trustlist.loaded /\ SameText # {}
           THEN found = Least(SameText)
           ELSE found = 0
        /\ found > 0 => found \in SameBytes
        /\ \A i \in SameBytes \ SameText : found # i

\* C10's case: two signers share the envelope's key identifier, with different
\* certificates, and the first was selected
C10_Witness ==
    /\ LookedUp
    /\ Len(Certs) = 2
    /\ SameText = {1, 2}
    /\ Certs[1].raw_data # Certs[2].raw_data
    /\ found = 1

(***************************************************************************)
(* src/dcc/mod.rs: load_sign1, step by step                                *)
(***************************************************************************)
MaxBodyLen == 3

MaxNewlines == 2

\* base45::decode of the base45 crate (RFC 9285): three symbols give two bytes,
\* most significant first; a final pair gives one byte; a single symbol left
\* over, a symbol outside the alphabet or a value too large is an error
RECURSIVE base45_crate_decode(_)
base45_crate_decode(t) ==
    IF Len(t) = 0 THEN Ok(<<>>)
    ELSE IF Len(t) = 1 THEN Err("base45", "DecodeError")
    ELSE LET c == base45_cval(t[1])
             d == base45_cval(t[2])
         IN  IF c.tag # "Ok" \/ d.tag # "Ok" THEN Err("base45", "DecodeError")
             ELSE IF Len(t) = 2
             THEN IF c.val + 45 * d.val > 255 THEN Err("base45", "DecodeError")
                  ELSE Ok(<<c.val + 45 * d.val>>)
             ELSE LET e == base45_cval(t[3])
                      n == c.val + 45 * d.val + 2025 * e.val
                  IN  IF e.tag # "Ok" \/ n > 65535 THEN Err("base45", "DecodeError")
                      ELSE LET r == base45_crate_decode(SubSeq(t, 4, Len(t)))
                           IN  IF r.tag # "Ok" THEN r
                               ELSE Ok(<<n \div 256, n % 256>> \o r.val)

\* a call load_sign1 makes to a decoder, and the input it hands over
Call(fn, arg) == [fn |-> fn, arg |-> arg]

\* sampled texts: what stands before the body, the body, the newlines after it
Prefixes ==
    {HC1, HC1 \o HC1, <<72, 67, 50, 58>>, <<104, 99, 49, 58>>, <<72, 67, 49>>,
     <<10>> \o HC1, <<>>}

BodyBytes == {48, 70, 10, 126}

Newlines(n) == [i \in 1..n |-> 10]

LoadInputs ==
    {p \o b \o Newlines(n) : p \in Prefixes, b \in SeqsUpTo(BodyBytes, MaxBodyLen),
                            n \in 0..MaxNewlines}

\* what inflating gives and what the COSE parser gives are left open: each may
\* fail, or give one of these
Inflations == {<<>>, <<210, 132>>}

ParsedEnvelopes == {Envelope(KidA, GoodPayload, GoodPayload),
                    Envelope(KidB, NoClaimPayload, GoodPayload)}

InitLoad ==
    /\ token \in LoadInputs
    /\ rest = <<>>
    /\ decoded = <<>>
    /\ inflated = <<>>
    /\ calls = <<>>
    /\ lpc = "strip_prefix"
    /\ lret = [tag |-> "None", val |-> 0]
    /\ IdleB45
    /\ IdleDcc
    /\ IdleMain
    /\ IdleVs

\* load_sign1: trim the newlines at the end, then strip "HC1:" or return
StripPrefix ==
    /\ lpc = "strip_prefix"
    /\ LET tail == strip_prefix(trim_end_matches(token, 10), HC1)
       IN  IF tail.some
           THEN /\ rest' = tail.v
                /\ lpc' = "base45"
                /\ UNCHANGED lret
           ELSE /\ lret' = Err("eyre", "Expected a string that starts with 'HC1:'")
                /\ lpc' = "returned"
                /\ UNCHANGED rest
    /\ UNCHANGED <<token, decoded, inflated, calls, b45vars, dccvars, mainvars, vsvars>>

\* load_sign1: base45::decode(text)?
Base45Decode ==
    /\ lpc = "base45"
    /\ calls' = Append(calls, Call("base45::decode", rest))
    /\ LET r == base45_crate_decode(rest)
       IN  IF r.tag = "Ok"
           THEN /\ decoded' = r.val
                /\ lpc' = "zlib"
                /\ UNCHANGED lret
           ELSE /\ lret' = r
                /\ lpc' = "returned"
                /\ UNCHANGED decoded
    /\ UNCHANGED <<token, rest, inflated, b45vars, dccvars, mainvars, vsvars>>

\* load_sign1: ZlibDecoder::new(&decoded[..]) and read_to_end(&mut s)?
ZlibRead ==
    /\ lpc = "zlib"
    /\ calls' = Append(calls, Call("ZlibDecoder::read_to_end", decoded))
    /\ \E r \in {Err("io", "read_to_end")} \cup {Ok(s) : s \in Inflations} :
          IF r.tag = "Ok"
          THEN /\ inflated' = r.val
               /\ lpc' = "cose"
               /\ UNCHANGED lret
          ELSE /\ lret' = r
               /\ lpc' = "returned"
               /\ UNCHANGED inflated
    /\ UNCHANGED <<token, rest, decoded, b45vars, dccvars, mainvars, vsvars>>

\* load_sign1: serde_cose::from_slice(&s)?, then Ok(sign1)
CoseFromSlice ==
    /\ lpc = "cose"
    /\ calls' = Append(calls, Call("serde_cose::from_slice", inflated))
    /\ \E r \in {Err("cose", "from_slice")} \cup {Ok(e) : e \in ParsedEnvelopes} :
          lret' = r
    /\ lpc' = "returned"
    /\ UNCHANGED <<token, rest, decoded, inflated, b45vars, dccvars, mainvars, vsvars>>

NextLoad == StripPrefix \/ Base45Decode \/ ZlibRead \/ CoseFromSlice

SpecLoad == InitLoad /\ [][NextLoad]_vars

(***************************************************************************)
(* C11                                                                     *)
(***************************************************************************)
\* the number of newline characters at the end of t
NewlinesAtEnd(t) ==
    CHOOSE n \in 0..Len(t) :
        /\ \A i \in (Len(t) - n + 1)..Len(t) : t[i] = 10
        /\ n = Len(t) \/ t[Len(t) - n] # 10

\* t without the newline characters at its end
WithoutNewlines(t) == SubSeq(t, 1, Len(t) - NewlinesAtEnd(t))

\* t, its trailing newlines removed, begins with "HC1:"
BeginsWithHC1(t) ==
    /\ Len(WithoutNewlines(t)) >= 4
    /\ \A i \in 1..4 : WithoutNewlines(t)[i] = HC1[i]

\* the text after the first four characters and before the trailing newlines
AfterPrefix(t) == SubSeq(WithoutNewlines(t), 5, Len(WithoutNewlines(t)))

DecoderCalled == calls # <<>>

\* C11: load_sign1 accepts a token only if, its trailing newlines removed, it
\* begins with "HC1:"; for a token without the prefix it returns the prefix
\* error and has called no decoder (base45, zlib, COSE); for a token with the
\* prefix the base45 decoder is called once, first, with exactly the text
\* after the prefix and before the trailing newlines.
C11_PrefixGuardsDecoding ==
    /\ lret.tag = "Ok" => BeginsWithHC1(token)
    /\ (~BeginsWithHC1(token) /\ lpc # "strip_prefix")
          => /\ lpc = "returned"
             /\ lret.tag = "eyre"
             /\ ~DecoderCalled
    /\ ~BeginsWithHC1(token) => ~DecoderCalled
    /\ (BeginsWithHC1(token) /\ lpc \notin {"strip_prefix", "base45"})
          => /\ calls[1] = Call("base45::decode", AfterPrefix(token))
             /\ \A i \in 2..Len(calls) : calls[i].fn # "base45::decode"
    /\ DecoderCalled => calls[1].fn = "base45::decode"

\* C11's case: a token with the prefix, a body and newlines at the end was
\* accepted, all three decoders having been called
C11_Witness ==
    /\ lpc = "returned"
    /\ lret.tag = "Ok"
    /\ NewlinesAtEnd(token) = 2
    /\ Len(AfterPrefix(token)) = 3
    /\ Len(calls) = 3

(***************************************************************************)
(* src/dcc/valuesets.rs                                                    *)
(***************************************************************************)
MaxSetSize == 1

\* Option of a reference: no element, or the one referred to
NoneRef == <<>>

SomeRef(v) == <<v>>

IsSome(o) == Len(o) = 1

\* the codes the sampled value sets may hold
KnownCodes == {"840539006", "1119349007", "ORG-100030215"}

\* Value: the metadata a value set holds for a code
Value(id, c) ==
    [display |-> <<id, c>>, lang |-> "en", active |-> TRUE, version |-> "1",
     system |-> id]

\* ValueSet: `values` maps each code of the set to its metadata
ValueSet(id, S) == [id |-> id, values |-> [c \in S |-> Value(id, c)]]

\* ValueSet::load(path): None if the file did not load, else a value set
ValueSet_load(id) ==
    {NoneRef} \cup {SomeRef(ValueSet(id, S)) :
                    S \in {T \in SUBSET KnownCodes : Cardinality(T) <= MaxSetSize}}

\* EhnData
EhnData ==
    [vaccine_prophylaxis : ValueSet_load("vaccine-prophylaxis"),
     disease_agent_targeted : ValueSet_load("disease-agent-targeted"),
     vaccine_mah_manf : ValueSet_load("vaccine-mah-manf"),
     vaccine_medicinal_product : ValueSet_load("vaccine-medicinal-product")]

\* what the deserializer holds: a text string, or a value of another type
Str(t) == [kind |-> "str", s |-> t]

CodeInputs ==
    {Str(c) : c \in KnownCodes \cup {"", "org-100030215", "J07BX03"}}
    \cup {[kind |-> "int", s |-> ""]}

\* a mutant of ValueSetVisitor_visit_string: a code the set lacks is an error
ValueSetVisitor_visit_string_Strict(set, key) ==
    IF IsSome(set) /\ key \notin DOMAIN set[1].values
    THEN Err("custom", "unknown code")
    ELSE Ok([key |-> key,
             value |-> IF IsSome(set) THEN SomeRef(set[1].values[key]) ELSE NoneRef])

\* ValueSetVisitor(set)::visit_string(key)
ValueSetVisitor_visit_string(set, key) ==
    LET value == IF IsSome(set)
                 THEN IF key \in DOMAIN set[1].values
                      THEN SomeRef(set[1].values[key])
                      ELSE NoneRef
                 ELSE NoneRef
    IN  Ok([key |-> key, value |-> value])

\* EHN_DATA.get().and_then(move |e| f(e).as_ref()), f selecting member m
and_then(data, m) == IF IsSome(data) THEN data[1][m] ELSE NoneRef

\* deserialize_set_value: deserialize_str hands a text string to the visitor;
\* any other type is the visitor's default, an invalid-type error
deserialize_set_value(data, m, d) ==
    IF d.kind = "str"
    THEN ValueSetVisitor_visit_string(and_then(data, m), d.s)
    ELSE Err("invalid_type", "a value set key string")

\* EHN_DATA is unset, or main() has set it from the four files
InitVs ==
    /\ ehn_data \in {NoneRef} \cup {SomeRef(e) : e \in EhnData}
    /\ code \in CodeInputs
    /\ field = "none"
    /\ vs_entry = [tag |-> "None", val |-> 0]
    /\ IdleB45
    /\ IdleDcc
    /\ IdleMain
    /\ IdleLoad

\* Vaccination.tg
deserialize_agent ==
    /\ field = "none"
    /\ field' = "tg"
    /\ vs_entry' = deserialize_set_value(ehn_data, "disease_agent_targeted", code)
    /\ UNCHANGED <<ehn_data, code, b45vars, dccvars, mainvars, loadvars>>

\* Vaccination.vp
deserialize_vaccine ==
    /\ field = "none"
    /\ field' = "vp"
    /\ vs_entry' = deserialize_set_value(ehn_data, "vaccine_prophylaxis", code)
    /\ UNCHANGED <<ehn_data, code, b45vars, dccvars, mainvars, loadvars>>

\* Vaccination.mp
deserialize_medicinal_product ==
    /\ field = "none"
    /\ field' = "mp"
    /\ vs_entry' = deserialize_set_value(ehn_data, "vaccine_medicinal_product", code)
    /\ UNCHANGED <<ehn_data, code, b45vars, dccvars, mainvars, loadvars>>

\* Vaccination.ma
deserialize_mah_manf ==
    /\ field = "none"
    /\ field' = "ma"
    /\ vs_entry' = deserialize_set_value(ehn_data, "vaccine_mah_manf", code)
    /\ UNCHANGED <<ehn_data, code, b45vars, dccvars, mainvars, loadvars>>

NextVs ==
    \/ deserialize_agent
    \/ deserialize_vaccine
    \/ deserialize_medicinal_product
    \/ deserialize_mah_manf

SpecVs == InitVs /\ [][NextVs]_vars

(***************************************************************************)
(* C12                                                                     *)
(***************************************************************************)
\* the value set each coded field is resolved in
CategoryOf ==
    [tg |-> "disease_agent_targeted", vp |-> "vaccine_prophylaxis",
     mp |-> "vaccine_medicinal_product", ma |-> "vaccine_mah_manf"]

Resolved == field \in {"tg", "vp", "mp", "ma"}

\* the field's value set is there and holds the code
InSet ==
    /\ ehn_data # <<>>
    /\ ehn_data[1][CategoryOf[field]] # <<>>
    /\ code.s \in DOMAIN ehn_data[1][CategoryOf[field]][1].values

\* C12: resolving a code string in a coded field (disease agent, vaccine,
\* product, manufacturer) never fails; the entry's key is the input string;
\* the entry has no metadata if the value-set data is unset, the field's value
\* set is absent or the code is not in it, and else has the metadata that the
\* field's own value set holds for exactly that code.
C12_ResolutionNeverFails ==
    (Resolved /\ code.kind = "str")
        => /\ vs_entry.tag = "Ok"
           /\ vs_entry.val.key = code.s
           /\ ~InSet => vs_entry.val.value = <<>>
           /\ InSet => /\ Len(vs_entry.val.value) = 1
                       /\ vs_entry.val.value[1]
                             = ehn_data[1][CategoryOf[field]][1].values[code.s]
                       /\ vs_entry.val.value[1].system
                             = ehn_data[1][CategoryOf[field]][1].id

\* C12's case: the manufacturer's code was resolved with the data set, its own
\* value set absent and another field's value set holding the code
C12_Witness ==
    /\ field = "ma"
    /\ code = Str("ORG-100030215")
    /\ ehn_data # <<>>
    /\ ehn_data[1].vaccine_mah_manf = <<>>
    /\ ehn_data[1].vaccine_medicinal_product # <<>>
    /\ "ORG-100030215" \in DOMAIN ehn_data[1].vaccine_medicinal_product[1].values
    /\ vs_entry.tag = "Ok"
    /\ vs_entry.val.value = <<>>

(***************************************************************************)
(* C13                                                                     *)
(***************************************************************************)
\* the lines that tell what the trust lookup or the signature check found
TrustLines ==
    {"info: Found certificate with matching kid",
     "warn: Did not find certificate with matching kid",
     "info: Verified OK",
     "warn: Unknown signature algorithm"}

\* the record was printed, and nothing about trust was emitted before it
RecordFirst ==
    \E i \in 1..Len(trace) :
        /\ trace[i] = "println: record"
        /\ \A j \in 1..(i - 1) : trace[j] \notin TrustLines

\* main() is at the trust lookup or beyond it, or has left a result of it
AtOrPastLookup ==
    \/ pc \in {"find", "algorithm", "verify"}
    \/ found > 0
    \/ alg.tag # "None"
    \/ verified # <<>>
    \/ \E i \in 1..Len(trace) : trace[i] \in TrustLines

\* C13: the record is printed before the trust lookup and before any
\* signature check, and nothing about trust is emitted before it; a run whose
\* payload decodes and that ends with an error (algorithm or signature check
\* failed) has printed the record.
C13_RecordBeforeTrust ==
    /\ AtOrPastLookup => RecordFirst
    /\ (Loaded /\ PayloadDecodes /\ pc # "try_from") => RecordFirst
    /\ (Loaded /\ PayloadDecodes /\ MainReturned /\ exit = "Err")
          => /\ RecordFirst
             /\ found > 0
             /\ verified \in {<<>>, <<FALSE>>}

\* C13's case: the payload decoded, a signer was found and the signature
\* check failed; the run ended with an error, the record printed
C13_Witness ==
    /\ MainReturned
    /\ exit = "Err"
    /\ verified = <<FALSE>>
    /\ RecordFirst

====
